---- MODULE Spec2Model ----
(***************************************************************************)
(* Model of the Aubio silence detector Vamp plugin (plugins/Silence.cpp).  *)
(*                                                                         *)
(* Samples are energies.  The level test of the aubio library is modelled  *)
(* by what it computes: the mean energy of the window, mapped to decibels  *)
(* by a monotone step function, compared with the threshold.  A window of  *)
(* length 0 has no mean (0/0); its classification is left open.            *)
(*                                                                         *)
(* A call of process() that never returns is the state hung = TRUE.        *)
(***************************************************************************)
EXTENDS Integers, Sequences, FiniteSets, TLC

\* ------------------------------------------------------------------ bounds
MaxCalls == 3        \* process() calls in one run
MaxInits == 2        \* initialise() calls in one run

\* (channels, stepSize) pairs the host initialises the plugin with;
\* blockSize = stepSize
Configs == {<<1, 4>>, <<2, 16>>, <<1, 1024>>}

\* sample energies: digital silence, a soft sample, a full-amplitude sample
Levels == <<0, 1, 1000>>
Quiet == Levels[1]
Soft  == Levels[2]
Loud  == Levels[3]

\* the values the host sets the threshold parameter to (dB)
Thresholds == {-70, -50}

NULL == 0

VARIABLES
    m_ibuf,          \* data pointer of m_ibuf: NULL or a storage id
    m_pbuf,          \* data pointer of m_pbuf: NULL or a storage id
    heap,            \* storage id -> contents (sequence of channel rows)
    live,            \* allocations made by initialise and not released
    m_channelCount,
    m_stepSize,
    m_blockSize,
    m_threshold,
    m_prevSilent,
    m_first,
    inputBuffers,    \* the caller's own sample storage
    ncalls,          \* process() calls made so far
    fresh,           \* what preceded the next process() call
    hung,            \* a process() call is looping forever
    last,            \* locals of the process() call that just returned
    probes,          \* sub-windows it handed to the classifier, in order
    returnFeatures,  \* the FeatureSet it returned
    chain,           \* the last feature emitted since construction, reset
                     \* or initialise
    destroyed        \* the destructor has run

vars == <<m_ibuf, m_pbuf, heap, live, m_channelCount, m_stepSize, m_blockSize,
          m_threshold, m_prevSilent, m_first, inputBuffers, ncalls, fresh,
          hung, last, probes, returnFeatures, chain, destroyed>>

\* ----------------------------------------------------------- input blocks
Min(a, b) == IF a < b THEN a ELSE b
Max(a, b) == IF a > b THEN a ELSE b

\* size_t incr = 16; if (incr > m_stepSize/8) incr = m_stepSize/8;
MaxIncr == 16
Incr(stepSize) == IF MaxIncr > stepSize \div 8 THEN stepSize \div 8 ELSE MaxIncr

\* a probe window as long as the scan step
WindowLength_OneStep(incr) == incr

\* vec.length = incr * 4
WindowLength(incr) == incr * 4

Grain(stepSize) == Max(1, Incr(stepSize))

\* A channel row is kept as its runs of equal samples, in order: the run
\* <<v, n>> is n consecutive samples of energy v.
Run(v, n) == IF n > 0 THEN <<<<v, n>>>> ELSE <<>>

\* a row that has level a on samples [0, k) and level b on [k, stepSize)
TwoPart(stepSize, k, a, b) ==
    IF a = b THEN Run(a, stepSize)
    ELSE Run(a, k) \o Run(b, stepSize - k)

\* a row of digital silence with soft samples on [p, p + n)
Burst(stepSize, p, n) ==
    Run(Quiet, p) \o Run(Soft, n) \o Run(Quiet, stepSize - p - n)

RECURSIVE RowLen(_)
RowLen(row) == IF row = <<>> THEN 0 ELSE row[1][2] + RowLen(Tail(row))

\* the rows the host delivers: digital silence, full amplitude, an onset
\* after 3 * incr samples and at mid-block, a decay leaving 2 * incr and
\* half a block of silence, and a soft click at the start
Rows(stepSize) ==
    LET g == Grain(stepSize)
        h == stepSize \div 2
    IN
      {TwoPart(stepSize, 0, Quiet, Quiet), TwoPart(stepSize, 0, Loud, Loud)}
      \cup {TwoPart(stepSize, k, Quiet, Loud) : k \in {3 * g, h}}
      \cup {TwoPart(stepSize, stepSize - q, Loud, Quiet) : q \in {2 * g, h}}
      \cup {Burst(stepSize, 0, g)}

\* the blocks the host delivers: the activity is on the last channel
Blocks(channels, stepSize) ==
    {[j \in 1..channels |->
        IF j = channels THEN r ELSE TwoPart(stepSize, 0, Quiet, Quiet)] :
     r \in Rows(stepSize)}

\* a step size that leaves a remainder when divided by incr = 17 \div 8,
\* and a usual one
LifeConfigs == {<<1, 17>>, <<1, 1024>>}

\* the energy of an isolated click
Click == 3

\* a row of digital silence with three clicks, at samples 1, 8 and 15
Clicks(stepSize) ==
    Run(Quiet, 1) \o Run(Click, 1) \o Run(Quiet, 6) \o Run(Click, 1)
    \o Run(Quiet, 6) \o Run(Click, 1) \o Run(Quiet, stepSize - 16)

\* the rows the host delivers on those streams: digital silence, full
\* amplitude, an onset on the last sample, which no forward probe window
\* covers, and the clicks
LifeRows(stepSize) ==
    {TwoPart(stepSize, 0, Quiet, Quiet), TwoPart(stepSize, 0, Loud, Loud),
     TwoPart(stepSize, stepSize - 1, Quiet, Loud), Clicks(stepSize)}

LifeBlocks(channels, stepSize) ==
    {[j \in 1..channels |->
        IF j = channels THEN r ELSE TwoPart(stepSize, 0, Quiet, Quiet)] :
     r \in LifeRows(stepSize)}

\* new_fvec(stepSize, channels): zero-filled storage
new_fvec(stepSize, channels) ==
    [j \in 1..channels |-> TwoPart(stepSize, 0, Quiet, Quiet)]

\* what the 3 * incr samples past the end of a row read as
Garbage == {Quiet, Soft, Loud}
NoGarbage == Quiet
PastEnd(incr, garbage) == Run(garbage, 3 * incr)

\* --------------------------------------------------------- the classifier
\* the number of samples the ranges [a, b) and [c, d) share
Overlap(a, b, c, d) == Max(0, Min(b, d) - Max(a, c))

\* the energy of samples [start, start + length) of the runs, the first of
\* which begins at sample pos
RECURSIVE RunsEnergy(_, _, _, _)
RunsEnergy(runs, pos, start, length) ==
    IF runs = <<>> THEN 0
    ELSE runs[1][1] * Overlap(pos, pos + runs[1][2], start, start + length)
         + RunsEnergy(Tail(runs), pos + runs[1][2], start, length)

\* the energy of a window of one row; past the end of the row, the garbage
RowEnergy(row, start, length, incr, garbage) ==
    RunsEnergy(row \o PastEnd(incr, garbage), 0, start, length)

\* the energy of a window is the sum of its samples over all channels
RECURSIVE Energy(_, _, _, _, _, _)
Energy(data, channels, start, length, incr, garbage) ==
    IF channels = 0 THEN 0
    ELSE RowEnergy(data[channels], start, length, incr, garbage)
         + Energy(data, channels - 1, start, length, incr, garbage)

\* the level of a window in dB, as a monotone step function of its mean
\* energy: below 1/4, below 1/2, at or above 1/2
LevelDb(energy, length) ==
    IF 4 * energy < length THEN -80
    ELSE IF 2 * energy < length THEN -60
    ELSE 0

\* aubio_silence_detection(&vec, threshold): vec is a view of vec.length
\* samples that start at vec.data[j] + vec.start on every channel
aubio_silence_detection(vec, threshold) ==
    IF vec.length = 0 THEN vec.emptySilent
    ELSE LevelDb(Energy(vec.data, vec.channels, vec.start, vec.length,
                        vec.incr, vec.garbage), vec.length) < threshold

\* ------------------------------------------------------------ the refiner
\* the offset taken as a count of scan steps
ForwardOffset_Scaled(i, incr) == i * incr

\* off = i
ForwardOffset(i, incr) == i

\* the offset taken at the start of the probe window
BackwardOffset_WindowStart(i, incr) == 0 - (i + incr)

\* off = -(long)i
BackwardOffset(i, incr) == 0 - i

\* m_tmpptrs[j] = m_pbuf->data[j] + m_stepSize - i - incr
PbufStart(stepSize, i, incr) == stepSize - i - incr

\* how many values i takes in for (size_t i = 0; i < limit; i += incr)
\* when nothing breaks the loop: 0, incr, 2 * incr, ...; with incr = 0 it
\* stays at 0
ScanLength(limit, incr) ==
    IF limit <= 0 THEN 0
    ELSE IF incr = 0 THEN 1
    ELSE (limit - 1) \div incr + 1

\* The outcome of a scan over len positions whose break condition first
\* holds at the position of index first (-1: at none): it stops there;
\* without a break it ends after the last position or, with incr = 0,
\* probes position 0 for ever.  n is the number of windows probed.
Scan(len, first, incr) ==
    [found |-> first >= 0,
     stop |-> IF first >= 0 THEN first * incr ELSE 0,
     hang |-> len > 0 /\ first < 0 /\ incr = 0,
     n |-> IF first >= 0 THEN first + 1 ELSE len]

\* The search contexts: c.data is the buffer searched, c.garbage what is
\* read past its end, c.emptySilent the classification of an empty window.
\* fvec_t vec; vec.length = incr * 4; vec.channels = m_channelCount;
\* vec.data = m_tmpptrs, set to data[j] + start
View(c, start) ==
    [data |-> c.data, channels |-> c.channels, start |-> start,
     length |-> WindowLength(c.incr), incr |-> c.incr,
     garbage |-> c.garbage, emptySilent |-> c.emptySilent]

\* the loop left at the first window that differs from the block
ForwardMatch_Differs(c, silent, i) ==
    silent # aubio_silence_detection(View(c, i), c.threshold)

\* if (silent == subsilent), for the window of the current block at i
ForwardMatch(c, silent, i) ==
    silent = aubio_silence_detection(View(c, i), c.threshold)

\* if (!subsilent), for the window of the previous block at offset i
BackwardMatch(c, i) ==
    ~aubio_silence_detection(View(c, PbufStart(c.stepSize, i, c.incr)),
                             c.threshold)

\* the index of the first position among those of index lo..hi where the
\* forward (back = FALSE) or backward (back = TRUE) loop breaks, -1 if it
\* breaks at none
RECURSIVE FirstBreak(_, _, _, _, _)
FirstBreak(c, back, silent, lo, hi) ==
    IF lo > hi THEN -1
    ELSE IF lo = hi
    THEN IF (IF back THEN BackwardMatch(c, lo * c.incr)
             ELSE ForwardMatch(c, silent, lo * c.incr))
         THEN lo ELSE -1
    ELSE LET mid == (lo + hi) \div 2
             l == FirstBreak(c, back, silent, lo, mid)
         IN  IF l >= 0 THEN l
             ELSE FirstBreak(c, back, silent, mid + 1, hi)

\* for (size_t i = 0; i < m_stepSize - incr * 4; i += incr): the first i
\* whose window of the current block, starting at i, classifies as the
\* block does.
ForwardSearch(c, silent) ==
    LET len == ScanLength(c.stepSize - WindowLength(c.incr), c.incr)
        sc  == Scan(len, FirstBreak(c, FALSE, silent, 0, len - 1), c.incr)
    IN  [off |-> IF sc.found THEN ForwardOffset(sc.stop, c.incr) ELSE 0,
         hang |-> sc.hang,
         probes |-> [n \in 1..sc.n |->
                       [buf |-> "ibuf", start |-> (n - 1) * c.incr,
                        length |-> WindowLength(c.incr)]]]

\* for (size_t i = 0; i < m_stepSize - incr; i += incr): the first i whose
\* window of the previous block, starting incr + i samples before its end,
\* is not silent.
BackwardSearch(c) ==
    LET len == ScanLength(c.stepSize - c.incr, c.incr)
        sc  == Scan(len, FirstBreak(c, TRUE, FALSE, 0, len - 1), c.incr)
    IN  [off |-> IF sc.found THEN BackwardOffset(sc.stop, c.incr) ELSE 0,
         hang |-> sc.hang,
         probes |-> [n \in 1..sc.n |->
                       [buf |-> "pbuf",
                        start |-> PbufStart(c.stepSize, (n - 1) * c.incr,
                                            c.incr),
                        length |-> WindowLength(c.incr)]]]

\* the first block compared with the recorded state like any other
Changed_IgnoresFirst(first, prevSilent, silent) == prevSilent # silent

\* every block reported
Changed_Always(first, prevSilent, silent) == TRUE

\* if (m_first || m_prevSilent != silent)
Changed(first, prevSilent, silent) == first \/ prevSilent # silent

\* every reported block refined
Refines_Always(first, silent) == TRUE

\* if ((silent && !m_first) || !silent)
Refines(first, silent) == (silent /\ ~first) \/ ~silent

\* the previous block searched for every silent block
LooksBack_Always(silent, off) == silent

\* if (silent && (off == 0))
LooksBack(silent, off) == silent /\ off = 0

\* the refinement block of process(): forward search, then the backward
\* search when it applies
Refine(cur, prev, silent) ==
    LET f == ForwardSearch(cur, silent)
        b == BackwardSearch(prev)
    IN  IF f.hang THEN [off |-> f.off, hang |-> TRUE, probes |-> f.probes,
                        fwd |-> f.off]
        ELSE IF LooksBack(silent, f.off)
        THEN [off |-> b.off, hang |-> b.hang,
              probes |-> f.probes \o b.probes, fwd |-> f.off]
        ELSE [off |-> f.off, hang |-> FALSE, probes |-> f.probes,
              fwd |-> f.off]

\* featureStamp = timestamp + frame2RealTime(off, rate), in frames
FeatureStamp(timestamp, off) == timestamp + off

\* the same level value for every block
LevelValue_Constant(silent) == 1

\* feature.values.push_back(silent ? 0 : 1)
LevelValue(silent) == IF silent THEN 0 ELSE 1

\* the feature pushed on output 2 and, its values cleared, on output 0 or 1
LevelFeature(stamp, silent) ==
    [hasTimestamp |-> TRUE, timestamp |-> stamp,
     values |-> <<LevelValue(silent)>>]
EventFeature(stamp) ==
    [hasTimestamp |-> TRUE, timestamp |-> stamp, values |-> <<>>]

\* the two event outputs exchanged
EventSlot_Swapped(silent) == IF silent THEN 1 ELSE 0

\* if (silent) returnFeatures[0] else returnFeatures[1]
EventSlot(silent) == IF silent THEN 0 ELSE 1

NoFeatures == [s \in 0..2 |-> <<>>]
Features(stamp, silent) ==
    [s \in 0..2 |->
        IF s = 2 THEN <<LevelFeature(stamp, silent)>>
        ELSE IF s = EventSlot(silent) THEN <<EventFeature(stamp)>>
        ELSE <<>>]

\* m_pbuf->data left as it was
SwapPbuf_Kept(ibuf, pbuf) == pbuf

\* smpl_t **tmpdata = m_ibuf->data; m_ibuf->data = m_pbuf->data;
\* m_pbuf->data = tmpdata;
SwapIbuf(ibuf, pbuf) == pbuf
SwapPbuf(ibuf, pbuf) == ibuf

\* m_prevSilent = silent; inside the if of line 199
NextPrevSilent(change, prevSilent, silent) ==
    IF change THEN silent ELSE prevSilent

\* the first-block flag never cleared
NextFirst_Kept(change, first) == first

\* m_first = false; inside the if of line 199
NextFirst(change, first) == IF change THEN FALSE ELSE first

\* the feature of a pending transition flushed at the end of the stream
EmptyFeatureSet_Flush == Features(0, FALSE)

\* return FeatureSet();
EmptyFeatureSet == NoFeatures

NoCall == [op |-> "none", called |-> FALSE, fresh |-> "no", first |-> FALSE,
           prevSilent |-> FALSE, silent |-> FALSE, timestamp |-> 0,
           off |-> 0, input |-> <<>>, refined |-> FALSE, fwd |-> 0,
           garbage |-> NoGarbage, emptySilent |-> FALSE, again |-> FALSE]

\* nothing emitted yet
NoChain == [n |-> 0, slot |-> 0, level |-> 0]

\* the chain after a call that returned features
Emitted(ch, features) ==
    IF features[2] = <<>> THEN ch
    ELSE [n |-> 1,
          slot |-> IF features[0] # <<>> THEN 0 ELSE 1,
          level |-> features[2][1].values[1]]

\* ---------------------------------------------------------------- actions
\* Silence::Silence
Init ==
    /\ m_ibuf = NULL
    /\ m_pbuf = NULL
    /\ heap = [id \in 1..2 |-> <<>>]
    /\ live = 0
    /\ m_channelCount = 0
    /\ m_stepSize = 0
    /\ m_blockSize = 0
    /\ m_threshold = -70
    /\ m_prevSilent = FALSE
    /\ m_first = TRUE
    /\ inputBuffers = <<>>
    /\ ncalls = 0
    /\ fresh = "constructed"
    /\ hung = FALSE
    /\ last = NoCall
    /\ probes = <<>>
    /\ returnFeatures = NoFeatures
    /\ chain = NoChain
    /\ destroyed = FALSE

\* the FeatureSet of the previous call is gone once the host calls again
Consumed ==
    /\ last' = NoCall
    /\ probes' = <<>>
    /\ returnFeatures' = NoFeatures

\* Silence::initialise: stores the sizes and allocates two buffers and the
\* pointer array; it frees nothing and does not touch m_first, m_prevSilent
initialise(channels, stepSize, blockSize) ==
    /\ ~hung /\ ~destroyed
    /\ live < 3 * MaxInits
    /\ m_channelCount' = channels
    /\ m_stepSize' = stepSize
    /\ m_blockSize' = blockSize
    /\ m_ibuf' = 1
    /\ m_pbuf' = 2
    /\ heap' = [id \in 1..2 |-> new_fvec(stepSize, channels)]
    /\ live' = live + 3
    /\ fresh' = IF fresh = "no" THEN "reinit" ELSE fresh
    /\ chain' = NoChain
    /\ Consumed
    /\ UNCHANGED <<m_threshold, m_prevSilent, m_first, inputBuffers, ncalls,
                   hung, destroyed>>

\* Silence::reset
reset ==
    /\ ~hung /\ ~destroyed
    /\ m_first' = TRUE
    /\ fresh' = "reset"
    /\ chain' = NoChain
    /\ Consumed
    /\ UNCHANGED <<m_ibuf, m_pbuf, heap, live, m_channelCount, m_stepSize,
                   m_blockSize, m_threshold, m_prevSilent, inputBuffers,
                   ncalls, hung, destroyed>>

\* Silence::setParameter("silencethreshold", value)
setParameter(value) ==
    /\ ~hung /\ ~destroyed
    /\ m_threshold' = value
    /\ Consumed
    /\ UNCHANGED <<m_ibuf, m_pbuf, heap, live, m_channelCount, m_stepSize,
                   m_blockSize, m_prevSilent, m_first, inputBuffers, ncalls,
                   fresh, hung, chain, destroyed>>

\* the host fills (or overwrites) its own storage with the next block
HostWrite(block) ==
    /\ ~hung /\ ~destroyed
    /\ m_ibuf # NULL
    /\ block # inputBuffers
    /\ inputBuffers' = block
    /\ UNCHANGED <<m_ibuf, m_pbuf, heap, live, m_channelCount, m_stepSize,
                   m_blockSize, m_threshold, m_prevSilent, m_first, ncalls,
                   fresh, hung, last, probes, returnFeatures, chain,
                   destroyed>>

\* the host passes m_channelCount rows of m_stepSize samples
WellSized(block) ==
    /\ Len(block) = m_channelCount
    /\ \A j \in 1..Len(block) : RowLen(block[j]) = m_stepSize

\* Silence::process(inputBuffers, timestamp)
process(timestamp) ==
    /\ ~hung /\ ~destroyed
    /\ m_ibuf # NULL
    /\ ncalls < MaxCalls
    /\ WellSized(inputBuffers)
    /\ LET \* fvec_write_sample(m_ibuf, inputBuffers[j][i], j, i)
           heap1  == [heap EXCEPT ![m_ibuf] = inputBuffers]
           incr   == Incr(m_stepSize)
           whole  == [data |-> heap1[m_ibuf], channels |-> m_channelCount,
                      start |-> 0, length |-> m_stepSize, incr |-> incr,
                      garbage |-> NoGarbage, emptySilent |-> FALSE]
           silent == aubio_silence_detection(whole, m_threshold)
           change == Changed(m_first, m_prevSilent, silent)
           refine == change /\ Refines(m_first, silent)
       IN  \E emptySilent \in
                 IF refine /\ incr = 0 THEN BOOLEAN ELSE {FALSE} :
           \E garbage \in
                 IF refine /\ incr > 0 /\ silent THEN Garbage
                 ELSE {NoGarbage} :
             LET cur == [data |-> heap1[m_ibuf], channels |-> m_channelCount,
                         stepSize |-> m_stepSize, incr |-> incr,
                         threshold |-> m_threshold, garbage |-> NoGarbage,
                         emptySilent |-> emptySilent]
                 prev == [cur EXCEPT !.data = heap1[m_pbuf],
                                     !.garbage = garbage]
                 r == IF refine THEN Refine(cur, prev, silent)
                      ELSE [off |-> 0, hang |-> FALSE, probes |-> <<>>,
                            fwd |-> 0]
                 featureStamp == FeatureStamp(timestamp, r.off)
                 features == IF change THEN Features(featureStamp, silent)
                             ELSE EmptyFeatureSet
             IN  IF r.hang
                 THEN /\ hung' = TRUE
                      /\ heap' = heap1
                      /\ Consumed
                      /\ UNCHANGED <<m_ibuf, m_pbuf, live, m_channelCount,
                             m_stepSize, m_blockSize, m_threshold,
                             m_prevSilent, m_first, inputBuffers, ncalls,
                             fresh, chain, destroyed>>
                 ELSE /\ heap' = heap1
                      /\ returnFeatures' = features
                      /\ chain' = Emitted(chain, features)
                      /\ m_prevSilent' =
                           NextPrevSilent(change, m_prevSilent, silent)
                      /\ m_first' = NextFirst(change, m_first)
                      /\ m_ibuf' = SwapIbuf(m_ibuf, m_pbuf)
                      /\ m_pbuf' = SwapPbuf(m_ibuf, m_pbuf)
                      /\ probes' = r.probes
                      /\ last' = [op |-> "process", called |-> TRUE,
                                  fresh |-> fresh, first |-> m_first,
                                  prevSilent |-> m_prevSilent,
                                  silent |-> silent, timestamp |-> timestamp,
                                  off |-> r.off, input |-> inputBuffers,
                                  refined |-> refine, fwd |-> r.fwd,
                                  garbage |-> garbage,
                                  emptySilent |-> emptySilent,
                                  again |-> chain.n > 0]
                      /\ ncalls' = ncalls + 1
                      /\ fresh' = "no"
                      /\ UNCHANGED <<live, m_channelCount, m_stepSize,
                             m_blockSize, m_threshold, inputBuffers, hung,
                             destroyed>>

\* Silence::getRemainingFeatures
getRemainingFeatures ==
    /\ ~hung /\ ~destroyed
    /\ returnFeatures' = EmptyFeatureSet
    /\ last' = [last EXCEPT !.op = "getRemainingFeatures",
                            !.called = FALSE]
    /\ probes' = <<>>
    /\ UNCHANGED <<m_ibuf, m_pbuf, heap, live, m_channelCount, m_stepSize,
                   m_blockSize, m_threshold, m_prevSilent, m_first,
                   inputBuffers, ncalls, fresh, hung, chain, destroyed>>

\* what the destructor releases: each of m_ibuf, m_pbuf, m_tmpptrs if set
\* (m_tmpptrs is set when m_ibuf is)
Released(ibuf, pbuf) ==
    (IF ibuf # NULL THEN 2 ELSE 0) + (IF pbuf # NULL THEN 1 ELSE 0)

\* Silence::~Silence
destroy ==
    /\ ~hung /\ ~destroyed
    /\ destroyed' = TRUE
    /\ live' = live - Released(m_ibuf, m_pbuf)
    /\ heap' = [id \in 1..2 |-> <<>>]
    /\ Consumed
    /\ UNCHANGED <<m_ibuf, m_pbuf, m_channelCount, m_stepSize,
                   m_blockSize, m_threshold, m_prevSilent, m_first,
                   inputBuffers, ncalls, fresh, hung, chain>>

Next ==
    \/ \E c \in Configs : initialise(c[1], c[2], c[2])
    \/ reset
    \/ \E v \in Thresholds : setParameter(v)
    \/ \E b \in Blocks(m_channelCount, m_stepSize) : HostWrite(b)
    \/ process(ncalls * m_stepSize)

Spec == Init /\ [][Next]_vars

\* The whole life of one plugin instance, from construction to
\* destruction, on the streams of LifeConfigs.
LifeNext ==
    \/ \E c \in LifeConfigs : initialise(c[1], c[2], c[2])
    \/ reset
    \/ \E v \in Thresholds : setParameter(v)
    \/ \E b \in LifeBlocks(m_channelCount, m_stepSize) : HostWrite(b)
    \/ process(ncalls * m_stepSize)
    \/ getRemainingFeatures
    \/ destroy

LifeSpec == Init /\ [][LifeNext]_vars

TypeOK ==
    /\ m_ibuf \in {NULL, 1, 2}
    /\ m_pbuf \in {NULL, 1, 2}
    /\ m_first \in BOOLEAN
    /\ m_prevSilent \in BOOLEAN
    /\ hung \in BOOLEAN
    /\ destroyed \in BOOLEAN
    /\ chain.n \in 0..1
    /\ ncalls \in 0..MaxCalls

\* ----------------------------------------------------------- observations
\* the call that just returned was the first since construction or reset
FirstCall == last.called /\ last.fresh \in {"constructed", "reset"}

\* it was not a first block and its classification differs from the
\* recorded one
Transition == last.called /\ ~last.first /\ last.silent # last.prevSilent

Level == returnFeatures[2]
Starts == returnFeatures[0]
Ends == returnFeatures[1]

\* the last channel of a block, where the host puts the activity
Active(block) == block[Len(block)]

\* the row is silent for its first k samples and loud after, 0 < k
OnsetAt(row, k) ==
    /\ Len(row) = 2
    /\ row[1] = <<Quiet, k>>
    /\ row[2][1] = Loud

AllQuiet(row) == Len(row) = 1 /\ row[1][1] = Quiet

\* the row is loud on its last m samples, 0 < m
LoudTail(row, m) ==
    /\ row # <<>>
    /\ row[Len(row)] = <<Loud, m>>

\* the block processed before the one that just returned: after the swap
\* m_ibuf points at it
PreviousBlock == heap[m_ibuf]

\* C1: the first process call after construction or after reset emits
\* exactly one sample on the level output and no event on the silence-start
\* and silence-end outputs.
C1_FirstCallEmitsLevelOnly ==
    FirstCall => Len(Level) = 1 /\ Starts = <<>> /\ Ends = <<>>

C3_NoChangeNoOutput ==
    (last.called /\ ~last.first /\ last.silent = last.prevSilent) =>
      /\ returnFeatures = NoFeatures
      /\ probes = <<>>
      /\ m_prevSilent = last.prevSilent
      /\ m_first = last.first
      /\ heap[m_pbuf] = last.input

C3_Witness ==
    last.called /\ ~last.first /\ last.silent = last.prevSilent

\* C4: a returned non-first call whose classification differs from the
\* recorded one emits exactly one level sample, of value 0 if the block is
\* silent and 1 if not, and exactly one event with the same timestamp, on
\* the silence-start output iff the block is silent and on the silence-end
\* output iff it is not.
C4_TransitionEmitsLevelAndEvent ==
    Transition =>
      /\ Len(Level) = 1
      /\ Level[1].values = <<IF last.silent THEN 0 ELSE 1>>
      /\ Len(Starts) = (IF last.silent THEN 1 ELSE 0)
      /\ Len(Ends) = (IF last.silent THEN 0 ELSE 1)
      /\ \A f \in {Starts[n] : n \in 1..Len(Starts)}
               \cup {Ends[n] : n \in 1..Len(Ends)} :
            f.timestamp = Level[1].timestamp /\ f.values = <<>>

C4_Witness == Transition /\ last.silent /\ Len(Starts) = 1

\* C5: the refined offset of every reported block lies in
\* [-stepSize, +stepSize], and so does the distance of every emitted
\* timestamp from the start timestamp of the block.
C5_OffsetWithinOneBlock ==
    last.called =>
      /\ 0 - m_stepSize <= last.off
      /\ last.off <= m_stepSize
      /\ \A s \in 0..2 : \A n \in 1..Len(returnFeatures[s]) :
           LET d == returnFeatures[s][n].timestamp - last.timestamp
           IN  0 - m_stepSize <= d /\ d <= m_stepSize

C5_Witness == Transition /\ last.silent /\ last.off < 0

\* the case of C6: the recorded state is silent and the block is silent for
\* its first k samples and loud after, k a multiple of incr below
\* stepSize - 4 * incr
ForwardCase(k) ==
    /\ Transition
    /\ last.prevSilent
    /\ OnsetAt(Active(last.input), k)
    /\ Incr(m_stepSize) > 0
    /\ k % Incr(m_stepSize) = 0
    /\ k < m_stepSize - 4 * Incr(m_stepSize)

\* C6: in that case the reported silence-end offset differs from k by at
\* most incr.
C6_ForwardWithinIncr ==
    \A k \in 1..m_stepSize :
      ForwardCase(k) =>
        /\ last.off - k <= Incr(m_stepSize)
        /\ k - last.off <= Incr(m_stepSize)

\* C6 (amended): in that case the reported silence-end offset is
\* max(0, k - 3 * incr): the first probe window whose last incr samples
\* reach the loud part, up to 3 * incr samples before k.
C6_ForwardWithinWindow ==
    Transition => \A k \in 1..m_stepSize :
      ForwardCase(k) =>
        /\ last.off = Max(0, k - 3 * Incr(m_stepSize))
        /\ Len(Ends) = 1
        /\ Ends[1].timestamp = last.timestamp + last.off

C6_Witness == ForwardCase(m_stepSize \div 2) /\ last.off > 0

\* the case of C7: the recorded state is non-silent, the previous block is
\* loud on its last m samples and the block is silent throughout
BackwardCase(m) ==
    /\ Transition
    /\ last.silent
    /\ AllQuiet(Active(last.input))
    /\ LoudTail(Active(PreviousBlock), m)

\* C7: in that case the reported silence-start offset is within incr of -m.
C7_BackwardAtMinusM ==
    \A m \in 1..m_stepSize :
      BackwardCase(m) =>
        /\ last.off + m <= Incr(m_stepSize)
        /\ 0 - (last.off + m) <= Incr(m_stepSize)

\* C7 (amended): in that case the reported silence-start offset is 0, the
\* start of the block, whatever m is: the first backward probe covers the
\* end of the previous block and is not silent.
C7_BackwardAtBoundary ==
    Transition => \A m \in 1..m_stepSize :
      BackwardCase(m) =>
        /\ last.off = 0
        /\ Len(Starts) = 1
        /\ Starts[1].timestamp = last.timestamp

C7_Witness == BackwardCase(m_stepSize \div 2) /\ Len(probes) >= 2

\* C8: a process call that returns leaves in m_pbuf the samples it was
\* given, in storage distinct from m_ibuf's, and the host overwriting its
\* own storage afterwards does not change them.
C8_PbufKeepsLastBlock ==
    [][/\ (ncalls' = ncalls + 1) =>
            /\ heap'[m_pbuf'] = inputBuffers
            /\ m_ibuf' # m_pbuf'
       /\ (inputBuffers' # inputBuffers) =>
            /\ m_pbuf' = m_pbuf
            /\ heap'[m_pbuf'] = heap[m_pbuf]]_vars

C8_Witness ==
    /\ ncalls > 0
    /\ fresh = "no"
    /\ ~hung
    /\ WellSized(inputBuffers)
    /\ inputBuffers # heap[m_pbuf]

\* C9: for every stepSize >= 1 every process call terminates.
C9_ProcessTerminates == ~hung

\* C10: the first process call after a repeated initialise is treated as a
\* first block: it emits a level sample.
C10_ReinitialiseResets ==
    (last.called /\ last.fresh = "reinit") => Len(Level) = 1

\* a step of reset that changes something
ResetStep == fresh' = "reset" /\ m_first' /\ (fresh # "reset" \/ ~m_first)

\* a process call that returns, made right after a reset
CallAfterReset == ncalls' = ncalls + 1 /\ fresh = "reset"

\* C11: the process call that follows a reset is treated as a first block:
\* it emits a level sample whatever classification was recorded before the
\* reset; reset itself leaves the buffers, the sizes and the threshold
\* unchanged.
C11_ResetRestarts ==
    [][/\ ResetStep =>
            UNCHANGED <<m_ibuf, m_pbuf, heap, live, m_channelCount,
                        m_stepSize, m_blockSize, m_threshold>>
       /\ CallAfterReset =>
            /\ Len(returnFeatures'[2]) = 1
            /\ ~m_first'
            /\ m_prevSilent' = last'.silent]_vars

C11_Witness ==
    /\ last.called
    /\ last.fresh = "reset"
    /\ last.silent = last.prevSilent
    /\ Len(Level) = 1

\* the members of the tracker
tracker == <<m_ibuf, m_pbuf, heap, live, m_channelCount, m_stepSize,
             m_blockSize, m_threshold, m_prevSilent, m_first>>

\* the stream ended on a block that caused a transition: the record of
\* the last process call is that of a non-first block whose classification
\* differs from the recorded one
EndedOnTransition ==
    /\ last.timestamp > 0
    /\ ~last.first
    /\ last.silent # last.prevSilent

\* C12: getRemainingFeatures returns an empty feature set in every state,
\* also right after a block that caused a transition, and changes no
\* tracker state.
C12_NoRemainingFeatures ==
    [][last'.op = "getRemainingFeatures" =>
         /\ \A s \in 0..2 : returnFeatures'[s] = <<>>
         /\ UNCHANGED tracker]_vars

C12_Witness ==
    /\ last.op = "getRemainingFeatures"
    /\ EndedOnTransition
    /\ m_prevSilent

\* C13: every sub-window handed to the classifier lies inside the buffer it
\* is taken from: its samples are within [0, stepSize) of the block.
C13_ProbesInsideBuffer ==
    \A n \in 1..Len(probes) :
        /\ probes[n].start >= 0
        /\ probes[n].start + probes[n].length <= m_stepSize

\* the positions 0, incr, 2 * incr, ... below stepSize - 4 * incr
ForwardPositions ==
    LET incr == Incr(m_stepSize) IN
      {i \in 0..(m_stepSize - 4 * incr - 1) :
          IF incr = 0 THEN i = 0 ELSE i % incr = 0}

\* the classification of the 4 * incr samples of the block just processed
\* that start at i
WindowSilent(i) ==
    aubio_silence_detection(
        [data |-> last.input, channels |-> m_channelCount, start |-> i,
         length |-> 4 * Incr(m_stepSize), incr |-> Incr(m_stepSize),
         garbage |-> NoGarbage, emptySilent |-> last.emptySilent],
        m_threshold)

\* the probed positions whose window classifies as the whole block
ForwardHits == {i \in ForwardPositions : WindowSilent(i) = last.silent}

\* C14: the forward search returns the smallest position i = 0, incr, ...
\* below stepSize - 4 * incr whose window classifies as the whole block,
\* and 0 when no probed window does.
C14_ForwardReturnsFirstMatch ==
    (last.called /\ last.refined) =>
        IF ForwardHits = {} THEN last.fwd = 0
        ELSE /\ last.fwd \in ForwardHits
             /\ \A j \in ForwardHits : last.fwd <= j

C14_Witness ==
    /\ last.called
    /\ last.refined
    /\ last.fwd > 0
    /\ 0 \notin ForwardHits
    /\ last.fwd \in ForwardHits
    /\ m_stepSize % Incr(m_stepSize) # 0

\* the offsets 0, incr, 2 * incr, ... below stepSize - incr
BackwardPositions ==
    LET incr == Incr(m_stepSize) IN
      {i \in 0..(m_stepSize - incr - 1) :
          IF incr = 0 THEN i = 0 ELSE i % incr = 0}

\* the classification of the window handed to the classifier for the
\* backward offset i: the 4 * incr samples that start incr + i samples
\* before the end of the previous block, with what was read past its end
PrevWindowSilent(i) ==
    aubio_silence_detection(
        [data |-> PreviousBlock, channels |-> m_channelCount,
         start |-> m_stepSize - i - Incr(m_stepSize),
         length |-> 4 * Incr(m_stepSize), incr |-> Incr(m_stepSize),
         garbage |-> last.garbage, emptySilent |-> last.emptySilent],
        m_threshold)

\* the offsets whose window is not silent
BackwardStops == {i \in BackwardPositions : ~PrevWindowSilent(i)}

\* the call that just returned probed the previous block
BackwardRan == \E n \in 1..Len(probes) : probes[n].buf = "pbuf"

\* C15: the refinement searches the previous block if and only if the
\* block is silent and the forward search left off = 0; otherwise the
\* offset is the forward one, never negative.  When it searches, the
\* offset is -i for the smallest i = 0, incr, ... below stepSize - incr
\* whose window is not silent, and 0 if every such window is silent.
C15_BackwardSearch ==
    last.called =>
      /\ BackwardRan <=> (last.refined /\ last.silent /\ last.fwd = 0)
      /\ ~BackwardRan => (last.off = last.fwd /\ last.off >= 0)
      /\ BackwardRan =>
           IF BackwardStops = {} THEN last.off = 0
           ELSE /\ (0 - last.off) \in BackwardStops
                /\ \A j \in BackwardStops : 0 - last.off <= j

C15_Witness ==
    /\ last.called
    /\ BackwardRan
    /\ last.off < 0
    /\ PrevWindowSilent(0)
    /\ ~PrevWindowSilent(0 - last.off)

\* C16: refinement never searches history that was not recorded: a first
\* block that is silent runs no probe, and the previous-block buffer is
\* searched only when it holds the block of the process call made just
\* before, with no initialise or reset in between.
C16_NoUnrecordedHistory ==
    last.called =>
      /\ (last.fresh # "no" /\ last.silent) => probes = <<>>
      /\ BackwardRan => last.fresh = "no"

\* C17: once the plugin is destroyed, every buffer that initialise
\* allocated has been released: none remains live.
C17_AllBuffersReleased == destroyed => live = 0

\* the classification of the whole block just processed
BlockSilent ==
    aubio_silence_detection(
        [data |-> last.input, channels |-> m_channelCount, start |-> 0,
         length |-> m_stepSize, incr |-> Incr(m_stepSize),
         garbage |-> NoGarbage, emptySilent |-> FALSE],
        m_threshold)

\* C18: when a process call has returned, m_prevSilent is the
\* classification of the block it was given and m_first is false, whether
\* the call emitted features or not.
C18_StateFollowsBlock ==
    last.called =>
      /\ m_prevSilent = BlockSilent
      /\ m_prevSilent = last.silent
      /\ ~m_first

C18_Witness ==
    /\ last.called
    /\ last.first
    /\ ~last.prevSilent
    /\ BlockSilent
    /\ m_prevSilent
    /\ ~m_first

\* a process call returns features while earlier ones, made after the last
\* reset or initialise, have returned some
EmitsAgain ==
    /\ ncalls' = ncalls + 1
    /\ returnFeatures'[2] # <<>>
    /\ chain.n > 0

\* C19: with no reset and no initialise in between, consecutive level
\* samples have different values, and silence-start and silence-end events
\* alternate.
C19_EventsAlternate ==
    [][EmitsAgain =>
         /\ returnFeatures'[2][1].values # <<chain.level>>
         /\ Len(returnFeatures'[chain.slot]) = 0
         /\ Len(returnFeatures'[1 - chain.slot]) = 1]_vars

C19_Witness ==
    /\ last.called
    /\ ncalls = 3
    /\ last.again
    /\ Len(Starts) = 1
    /\ Level[1].values = <<0>>

\* two process calls in a row, on blocks whose start timestamps differ by
\* stepSize, both return features
EmitsTwice ==
    /\ ncalls' = ncalls + 1
    /\ last.called
    /\ last.timestamp + m_stepSize = last'.timestamp
    /\ returnFeatures[2] # <<>>
    /\ returnFeatures'[2] # <<>>

\* C20: the timestamps of the features emitted by successive process calls
\* never decrease.
C20_StampsNeverDecrease ==
    [][EmitsTwice =>
         returnFeatures'[2][1].timestamp >= returnFeatures[2][1].timestamp
      ]_vars

====
